---- MODULE Spec2Model ----
(***************************************************************************)
(* The Hack24 API client of hubot-hackbot (lib/client.coffee): five        *)
(* operations, each of which builds one HTTP request, hands it to          *)
(* robot.http and settles a Promise from the transport's callback.         *)
(*                                                                         *)
(* JavaScript values are modelled as follows: an object is a record, a     *)
(* missing property is looked up with Get (which yields Undefined), null   *)
(* and undefined are the records Null and Undefined, an array is a         *)
(* sequence, and a character string that is encoded (the credentials) is   *)
(* a sequence of byte values.                                              *)
(***************************************************************************)
EXTENDS Integers, Sequences, FiniteSets, TLC

\* How many operation invocations one behaviour holds (they run concurrently).
MaxCalls == 2

CallIds == 1..MaxCalls

Undefined == [jstype |-> "undefined"]
Null == [jstype |-> "null"]

\* obj.field of JavaScript: undefined when the object has no such property
\* (a number or undefined itself has none of the properties used here).
HasField(obj, field) == field \in DOMAIN obj
Get(obj, field) == IF HasField(obj, field) THEN obj[field] ELSE Undefined

(***************************************************************************)
(* Inputs.                                                                 *)
(***************************************************************************)
\* Byte strings: "hb", "a@b", "12".
Usernames == { <<104, 98>> }
Passwords == { <<49, 50>> }
Emails == { <<97, 64, 98>> }
ApiUrl == "http://localhost:12345"

TeamNames == { "clicky-keys" }
UserIds == { "U12345" }
UserNames == { "Barry" }

\* The status codes the backend answers with: the boundaries of 2xx, and 404.
StatusCodes == { 199, 200, 299, 300, 404 }

\* The errors the transport reports.
TransportErrors ==
  { [jstype |-> "error", message |-> "socket hang up"],
    [jstype |-> "error", message |-> "connect ECONNREFUSED"] }

SyntaxError == [jstype |-> "error", message |-> "Unexpected token in JSON"]

(***************************************************************************)
(* JSON texts.  A text is either the serialisation of a value or a text    *)
(* that is no JSON at all (Express's sendStatus(404) sends "Not Found").   *)
(***************************************************************************)
JSONstringify(value) == [text |-> "json", value |-> value]
NotJson == [text |-> "Not Found"]

\* JSON.parse: the value of a JSON text; a SyntaxError is thrown otherwise.
JSONparse(body) ==
  IF body.text = "json"
    THEN [threw |-> FALSE, value |-> body.value]
    ELSE [threw |-> TRUE, value |-> SyntaxError]

(***************************************************************************)
(* The Basic credentials robot.http derives from its auth option.          *)
(***************************************************************************)
\* Base64 of a byte string, as indices into the Base64 alphabet; index 64
\* stands for the padding character "=".
RECURSIVE Base64(_)
Base64(bytes) ==
  IF Len(bytes) = 0 THEN <<>>
  ELSE IF Len(bytes) = 1
    THEN << bytes[1] \div 4, (bytes[1] % 4) * 16, 64, 64 >>
  ELSE IF Len(bytes) = 2
    THEN << bytes[1] \div 4,
            (bytes[1] % 4) * 16 + (bytes[2] \div 16),
            (bytes[2] % 16) * 4,
            64 >>
  ELSE << bytes[1] \div 4,
          (bytes[1] % 4) * 16 + (bytes[2] \div 16),
          (bytes[2] % 16) * 4 + (bytes[3] \div 64),
          bytes[3] % 64 >> \o Base64(SubSeq(bytes, 4, Len(bytes)))

BasicAuth(credentials) == [scheme |-> "Basic", credentials |-> Base64(credentials)]

\* getAuth = () -> "#{process.env.HACKBOT_USERNAME}:#{process.env.HACKBOT_PASSWORD}"
getAuth(processEnv) ==
  processEnv.HACKBOT_USERNAME \o <<58>> \o processEnv.HACKBOT_PASSWORD

(***************************************************************************)
(* Requests.  robot.http(url, options) starts a request; header adds a     *)
(* header; post(body) and get() put it on the wire.  An auth option        *)
(* becomes the Authorization header.                                       *)
(***************************************************************************)
\* robot.http(url): no options object.
NoOptions == << >>

Http(url, options) ==
  [ url |-> url,
    headers |-> IF HasField(options, "auth")
                  THEN [Host |-> "localhost:12345",
                        Authorization |-> BasicAuth(options.auth)]
                  ELSE [Host |-> "localhost:12345"] ]

\* client.header(name, value), one operator per header name the client sets.
HeaderContentType(client, value) ==
  [client EXCEPT !.headers =
     [n \in DOMAIN client.headers \cup {"Content-Type"} |->
        IF n = "Content-Type" THEN value ELSE client.headers[n]]]

HeaderAccept(client, value) ==
  [client EXCEPT !.headers =
     [n \in DOMAIN client.headers \cup {"Accept"} |->
        IF n = "Accept" THEN value ELSE client.headers[n]]]

HttpPost(client, body) ==
  [method |-> "POST", url |-> client.url, headers |-> client.headers, body |-> body]

HttpGet(client) ==
  [method |-> "GET", url |-> client.url, headers |-> client.headers, body |-> Undefined]


(***************************************************************************)
(* JSON:API documents the backend answers with.                            *)
(***************************************************************************)
Ref(type, id) == [type |-> type, id |-> id]

UserResource(id, name, teamRef) ==
  [ type |-> "users", id |-> id, attributes |-> [name |-> name],
    relationships |-> [team |-> [data |-> teamRef]] ]

TeamResource(id, name, memberRefs) ==
  [ type |-> "teams", id |-> id, attributes |-> [name |-> name],
    relationships |-> [members |-> [data |-> memberRefs]] ]

Barry == UserResource("U12345", "Barry", Ref("teams", "clicky-keys"))
Zackary == UserResource("U67890", "Zackary", Ref("teams", "clicky-keys"))
ClickyKeys ==
  TeamResource("clicky-keys", "Clicky Keys",
               << Ref("users", "U12345"), Ref("users", "U67890") >>)

\* GET /users/U12345: a user in no team (no included array), and a user in a
\* team of two, with the included resources in either order.
UserDocuments ==
  { [data |-> UserResource("U12345", "Barry", Null)],
    [data |-> Barry, included |-> << ClickyKeys, Zackary >>],
    [data |-> Barry, included |-> << Zackary, ClickyKeys >>] }

\* GET /teams/clicky-keys: a team of two, with the included users in either order.
TeamDocuments ==
  { [data |-> ClickyKeys, included |-> << Barry, Zackary >>],
    [data |-> ClickyKeys, included |-> << Zackary, Barry >>] }

\* The response bodies the backend sends to each operation.
Bodies(op) ==
  IF op = "getUser" THEN {JSONstringify(d) : d \in UserDocuments} \cup {NotJson}
  ELSE IF op = "getTeamByName" THEN {JSONstringify(d) : d \in TeamDocuments} \cup {NotJson}
  ELSE {NotJson}

(***************************************************************************)
(* Inputs of the robot's scripts.                                          *)
(***************************************************************************)
MaxErrors == 2

\* Config.HACKBOT_ERROR_CHANNEL.value
ErrorChannels == { "#my_error_channel" }

Users == { [name |-> "someUser"], [name |-> "anotherUser"] }

\* new Message(user) has no text; a TextMessage has the text the user typed.
Messages ==
  { [user |-> u] : u \in Users }
  \cup { [user |-> u, text |-> t] : u \in Users, t \in {"@hubot my id", "@hubot can you see the api?"} }

\* new Response(robot, message): its envelope names the message's user.
Response(message) ==
  [envelope |-> [user |-> message.user, message |-> message], message |-> message]

\* The responses an error event carries: undefined when the error was not
\* raised while answering a message.
Responses == { Response(m) : m \in Messages } \cup { Undefined }

Errors ==
  { [ jstype |-> "error", message |-> "catches an error with Slack adapter",
      stack |-> "Error: catches an error with Slack adapter\n    at Context.before" ],
    [ jstype |-> "error", message |-> "socket hang up",
      stack |-> "Error: socket hang up\n    at createHangUpError" ] }

TypeError ==
  [jstype |-> "error", message |-> "Cannot read property 'envelope' of undefined"]

(***************************************************************************)
(* Inputs of the chat commands of scripts/my_id.script.ts.                 *)
(***************************************************************************)
MaxCommands == 2

\* What `await robot.client.checkApi()` gives the handler: the envelope of a
\* response, or the rejection of a transport failure.
CheckApiOutcomes ==
  { [state |-> "resolved", value |-> [statusCode |-> s, ok |-> 200 <= s /\ s < 300]] :
      s \in StatusCodes }
  \cup { [state |-> "rejected", value |-> e] : e \in TransportErrors }

\* robot.adapter.client.rtm.dataStore: the users the store knows.
DataStore ==
  << [id |-> "U1", name |-> "alice", is_admin |-> TRUE],
     [id |-> "U2", name |-> "bob", is_admin |-> FALSE] >>

\* response.envelope.user of a command: a user of the store, or one the store
\* does not know (getUserById gives undefined for it).
Requesters ==
  { [id |-> "U1", name |-> "alice"], [id |-> "U2", name |-> "bob"],
    [id |-> "U3", name |-> "carol"] }

\* What /whois (.+)/i matches: the text said, and response.match.
WhoisCommands ==
  { [text |-> "@hubot whois bob", match |-> << "whois bob", "bob" >>],
    [text |-> "@hubot whois nobody", match |-> << "whois nobody", "nobody" >>] }

(***************************************************************************)
(* State.                                                                  *)
(***************************************************************************)
VARIABLES
  env,        \* process.env: HACK24API_URL, HACKBOT_USERNAME, HACKBOT_PASSWORD
  pc,         \* per call: "idle", "waiting" (request on the wire), "done" (callback ran)
  call,       \* per call: the operation and the caller's arguments
  requests,   \* per call: the requests put on the wire, in order
  delivered,  \* per call: what the transport handed to the callback
  promise,    \* per call: the Promise the operation returned
  uncaught,   \* per call: the exception that left the callback, or Undefined
  robot       \* the chat robot: its configuration, the error events emitted on
              \* it, the messages it handed to its adapter, the exceptions
              \* that left its error handler, the runs of its command
              \* handlers and the calls they made to the client and the
              \* data store

vars == << env, pc, call, requests, delivered, promise, uncaught, robot >>

(***************************************************************************)
(* new Promise (resolve, reject) -> ...                                    *)
(* resolve and reject settle a pending promise and are ignored by a        *)
(* settled one; settleCalls counts how often the executor called them.     *)
(***************************************************************************)
NoPromise == [state |-> "none", value |-> Undefined, settleCalls |-> 0]
NewPromise == [state |-> "pending", value |-> Undefined, settleCalls |-> 0]

Resolve(value) == [eff |-> "resolve", value |-> value]
Reject(reason) == [eff |-> "reject", value |-> reason]
Throw(error) == [eff |-> "throw", value |-> error]

Settle(p, effect) ==
  IF p.state = "pending"
    THEN [ state |-> IF effect.eff = "resolve" THEN "resolved" ELSE "rejected",
           value |-> effect.value,
           settleCalls |-> p.settleCalls + 1 ]
    ELSE [p EXCEPT !.settleCalls = @ + 1]

\* The promise after the callback's effects, in order; a throw ends the callback.
RECURSIVE RunEffects(_, _)
RunEffects(p, effects) ==
  IF effects = <<>> THEN p
  ELSE IF Head(effects).eff = "throw" THEN p
  ELSE RunEffects(Settle(p, Head(effects)), Tail(effects))

\* The exception that leaves the callback, if any.
RECURSIVE Thrown(_)
Thrown(effects) ==
  IF effects = <<>> THEN Undefined
  ELSE IF Head(effects).eff = "throw" THEN Head(effects).value
  ELSE Thrown(Tail(effects))

(***************************************************************************)
(* The callbacks (err, res, body) -> ... of the five operations, as the    *)
(* sequence of effects each has on its promise.  `err?` holds of every     *)
(* value but null and undefined.                                           *)
(***************************************************************************)
Exists(x) == x # Null /\ x # Undefined

Num(n) == [jstype |-> "number", n |-> n]

createTeamCallback(err, res, body) ==
  IF Exists(err) THEN << Reject(err) >>
  ELSE << Resolve(Num(res.statusCode)) >>

createUserCallback(err, res, body) ==
  IF Exists(err) THEN << Reject(err) >>
  ELSE << Resolve(Num(res.statusCode)) >>

\* checkApi's callback were it to reject with an error of its own making.
checkApiCallbackWrapsError(err, res, body) ==
  IF Exists(err)
    THEN << Reject([jstype |-> "error", message |-> "request failed"]) >>
  ELSE << Resolve(Num(res.statusCode)) >>

checkApiCallback(err, res, body) ==
  IF Exists(err) THEN << Reject(err) >>
  ELSE << Resolve(Num(res.statusCode)) >>

\* getUser's callback were it to answer from the result of a getUser that
\* resolved earlier instead of from its own response.
getUserCallbackCached(err, res, body) ==
  LET earlier == { d \in CallIds : /\ pc[d] = "done"
                                    /\ call[d].op = "getUser"
                                    /\ promise[d].state = "resolved" }
  IN
  IF Exists(err) THEN << Reject(err) >>
  ELSE IF earlier # {}
    THEN << Resolve(promise[CHOOSE d \in earlier : TRUE].value) >>
  ELSE IF res.statusCode = 200 /\ JSONparse(body).threw
    THEN << Throw(JSONparse(body).value) >>
  ELSE IF res.statusCode = 200
    THEN << Resolve([statusCode |-> res.statusCode, user |-> JSONparse(body).value]) >>
  ELSE << Resolve([statusCode |-> res.statusCode]) >>

getUserCallback(err, res, body) ==
  IF Exists(err) THEN << Reject(err) >>
  ELSE IF res.statusCode = 200
    THEN IF JSONparse(body).threw
           THEN << Throw(JSONparse(body).value) >>
           ELSE << Resolve([statusCode |-> res.statusCode,
                            user |-> JSONparse(body).value]) >>
    ELSE << Resolve([statusCode |-> res.statusCode]) >>

getTeamByNameCallback(err, res, body) ==
  IF Exists(err) THEN << Reject(err) >>
  ELSE IF res.statusCode = 200
    THEN IF JSONparse(body).threw
           THEN << Throw(JSONparse(body).value) >>
           ELSE << Resolve([statusCode |-> res.statusCode,
                            team |-> JSONparse(body).value]) >>
    ELSE << Resolve([statusCode |-> res.statusCode]) >>

(***************************************************************************)
(* The request each operation builds.                                      *)
(***************************************************************************)
\* "#{process.env.HACK24API_URL}/a/b" is the sequence << HACK24API_URL, a, b >>.
createTeamRequest(processEnv, teamName, userId) ==
  HttpPost(
    HeaderContentType(
      Http(<< processEnv.HACK24API_URL, "teams" >>, [auth |-> getAuth(processEnv)]),
      "application/json"),
    JSONstringify([name |-> teamName, members |-> << userId >>]))

createUserRequest(processEnv, userId, userName) ==
  HttpPost(
    HeaderContentType(
      Http(<< processEnv.HACK24API_URL, "users" >>, [auth |-> getAuth(processEnv)]),
      "application/json"),
    JSONstringify([userid |-> userId, name |-> userName]))

checkApiRequest(processEnv) ==
  HttpGet(Http(<< processEnv.HACK24API_URL, "api" >>, NoOptions))

getUserRequest(processEnv, userId) ==
  HttpGet(
    HeaderAccept(
      Http(<< processEnv.HACK24API_URL, "users", userId >>, NoOptions),
      "application/json"))

getTeamByNameRequest(processEnv, teamName) ==
  HttpGet(
    HeaderAccept(
      Http(<< processEnv.HACK24API_URL, "teams", teamName >>, NoOptions),
      "application/json"))

(***************************************************************************)
(* Invocations: the operation builds its request, puts it on the wire and  *)
(* returns a pending promise.                                              *)
(***************************************************************************)
Str(bytes) == [jstype |-> "string", bytes |-> bytes]

\* The email a caller passes last (undefined when it has none).
EmailArgs == {Str(e) : e \in Emails} \cup {Undefined}

Invoke(c, op, args, request) ==
  /\ pc' = [pc EXCEPT ![c] = "waiting"]
  /\ call' = [call EXCEPT ![c] = [op |-> op, args |-> args]]
  /\ requests' = [requests EXCEPT ![c] = Append(@, request)]
  /\ promise' = [promise EXCEPT ![c] = NewPromise]
  /\ UNCHANGED << env, delivered, uncaught, robot >>

\* createTeam: (robot, teamName, userId) -> ; an email passed after userId
\* binds to no parameter.
createTeam(c, teamName, userId, email) ==
  /\ pc[c] = "idle"
  /\ Invoke(c, "createTeam",
            [teamName |-> teamName, userId |-> userId, email |-> email],
            createTeamRequest(env, teamName, userId))

\* createUser: (robot, userId, userName) -> ; likewise.
createUser(c, userId, userName, email) ==
  /\ pc[c] = "idle"
  /\ Invoke(c, "createUser",
            [userId |-> userId, userName |-> userName, email |-> email],
            createUserRequest(env, userId, userName))

checkApi(c) ==
  /\ pc[c] = "idle"
  /\ Invoke(c, "checkApi", [none |-> Undefined], checkApiRequest(env))

getUser(c, userId) ==
  /\ pc[c] = "idle"
  /\ Invoke(c, "getUser", [userId |-> userId], getUserRequest(env, userId))

getTeamByName(c, teamName) ==
  /\ pc[c] = "idle"
  /\ Invoke(c, "getTeamByName", [teamName |-> teamName],
            getTeamByNameRequest(env, teamName))

(***************************************************************************)
(* The transport calls the operation's callback once: with the backend's   *)
(* response, or with its own error.                                        *)
(***************************************************************************)
Deliveries(op) ==
  { [err |-> Null, res |-> [statusCode |-> s], body |-> b] :
      s \in StatusCodes, b \in Bodies(op) }
  \cup
  { [err |-> e, res |-> Undefined, body |-> Undefined] : e \in TransportErrors }

Deliver(c, d, effects) ==
  /\ pc' = [pc EXCEPT ![c] = "done"]
  /\ delivered' = [delivered EXCEPT ![c] = d]
  /\ promise' = [promise EXCEPT ![c] = RunEffects(@, effects)]
  /\ uncaught' = [uncaught EXCEPT ![c] = Thrown(effects)]
  /\ UNCHANGED << env, call, requests, robot >>

createTeamDone(c) ==
  /\ pc[c] = "waiting"
  /\ call[c].op = "createTeam"
  /\ \E d \in Deliveries("createTeam") :
       Deliver(c, d, createTeamCallback(d.err, d.res, d.body))

createUserDone(c) ==
  /\ pc[c] = "waiting"
  /\ call[c].op = "createUser"
  /\ \E d \in Deliveries("createUser") :
       Deliver(c, d, createUserCallback(d.err, d.res, d.body))

checkApiDone(c) ==
  /\ pc[c] = "waiting"
  /\ call[c].op = "checkApi"
  /\ \E d \in Deliveries("checkApi") :
       Deliver(c, d, checkApiCallback(d.err, d.res, d.body))

getUserDone(c) ==
  /\ pc[c] = "waiting"
  /\ call[c].op = "getUser"
  /\ \E d \in Deliveries("getUser") :
       Deliver(c, d, getUserCallback(d.err, d.res, d.body))

getTeamByNameDone(c) ==
  /\ pc[c] = "waiting"
  /\ call[c].op = "getTeamByName"
  /\ \E d \in Deliveries("getTeamByName") :
       Deliver(c, d, getTeamByNameCallback(d.err, d.res, d.body))

(***************************************************************************)
(* Specification.                                                          *)
(***************************************************************************)
Init ==
  /\ env \in [ HACK24API_URL : {ApiUrl},
               HACKBOT_USERNAME : Usernames,
               HACKBOT_PASSWORD : Passwords ]
  /\ pc = [c \in CallIds |-> "idle"]
  /\ call = [c \in CallIds |-> [op |-> "none", args |-> Undefined]]
  /\ requests = [c \in CallIds |-> << >>]
  /\ delivered = [c \in CallIds |-> Undefined]
  /\ promise = [c \in CallIds |-> NoPromise]
  /\ uncaught = [c \in CallIds |-> Undefined]
  /\ robot \in [ config : [HACKBOT_ERROR_CHANNEL : ErrorChannels],
                  emitted : {<< >>}, messages : {<< >>}, thrown : {<< >>},
                  handlers : {<< >>}, calls : {<< >>} ]

Next ==
  \E c \in CallIds :
    \/ \E t \in TeamNames, u \in UserIds, e \in EmailArgs : createTeam(c, t, u, e)
    \/ \E u \in UserIds, n \in UserNames, e \in EmailArgs : createUser(c, u, n, e)
    \/ checkApi(c)
    \/ \E u \in UserIds : getUser(c, u)
    \/ \E t \in TeamNames : getTeamByName(c, t)
    \/ createTeamDone(c)
    \/ createUserDone(c)
    \/ checkApiDone(c)
    \/ getUserDone(c)
    \/ getTeamByNameDone(c)

Spec == Init /\ [][Next]_vars

(***************************************************************************)
(* Vocabulary of the properties.                                           *)
(***************************************************************************)
\* The data model's rule for ok.
Ok(s) == 200 <= s /\ s < 300

Done(c) == pc[c] = "done"
\* The transport delivered the backend's response / its own error to call c.
Responded(c) == Done(c) /\ ~Exists(delivered[c].err)
Failed(c) == Done(c) /\ Exists(delivered[c].err)
Status(c) == delivered[c].res.statusCode
Parses(c) == ~JSONparse(delivered[c].body).threw
Document(c) == JSONparse(delivered[c].body).value

Resolved(c) == promise[c].state = "resolved"
Rejected(c) == promise[c].state = "rejected"
Result(c) == promise[c].value

IsRead(c) == call[c].op \in {"getUser", "getTeamByName"}

\* C1: every backend response resolves with statusCode = s and
\* ok = (200 <= s < 300), whatever the operation and the status s.
C1_EnvelopeCarriesStatusAndOk ==
  \A c \in CallIds :
    (Responded(c) /\ Resolved(c)) =>
      /\ HasField(Result(c), "statusCode")
      /\ Result(c).statusCode = Status(c)
      /\ HasField(Result(c), "ok")
      /\ Result(c).ok = Ok(Status(c))

\* C2: a response outside 2xx never rejects the call: it resolves with
\* ok = false, the observed statusCode and no user, team or teams field.
C2_NonSuccessResolvesNotOk ==
  \A c \in CallIds :
    (Responded(c) /\ ~Ok(Status(c))) =>
      /\ Resolved(c)
      /\ HasField(Result(c), "statusCode")
      /\ Result(c).statusCode = Status(c)
      /\ HasField(Result(c), "ok")
      /\ Result(c).ok = FALSE
      /\ ~HasField(Result(c), "user")
      /\ ~HasField(Result(c), "team")
      /\ ~HasField(Result(c), "teams")

\* C3: a transport failure rejects the call with the transport's error,
\* unchanged, and the call produces no result: resolve is never called and
\* nothing else leaves the callback.
C3_TransportErrorRejectsUnchanged ==
  \A c \in CallIds :
    Failed(c) =>
      /\ Rejected(c)
      /\ Result(c) = delivered[c].err
      /\ promise[c].settleCalls = 1
      /\ uncaught[c] = Undefined

C3_Witness ==
  \E c \in CallIds :
    /\ Failed(c)
    /\ Rejected(c)
    /\ Result(c).message = "socket hang up"

\* C4: an invocation issues at most one request, and once the transport has
\* called back its promise is settled, by exactly one call of resolve or
\* reject.
C4_OneRequestSettledOnce ==
  \A c \in CallIds :
    /\ Len(requests[c]) <= 1
    /\ promise[c].settleCalls <= 1
    /\ Done(c) => /\ Resolved(c) \/ Rejected(c)
                  /\ promise[c].settleCalls = 1

\* C5: a 2xx response to getUser or getTeam whose body is no JSON rejects the
\* promise: the call neither resolves nor stays pending.
C5_MalformedSuccessBodyRejects ==
  \A c \in CallIds :
    (Responded(c) /\ IsRead(c) /\ Ok(Status(c)) /\ ~Parses(c)) => Rejected(c)

\* C6: getUser's result has a user exactly when ok, and getTeam's a team
\* exactly when ok, for every status.
C6_PayloadIffOk ==
  \A c \in CallIds :
    (Responded(c) /\ IsRead(c) /\ Parses(c)) =>
      /\ Resolved(c)
      /\ call[c].op = "getUser" =>
           (HasField(Result(c), "user") <=> Ok(Status(c)))
      /\ call[c].op = "getTeamByName" =>
           (HasField(Result(c), "team") <=> Ok(Status(c)))

\* The operations the interface calls mutating.
Mutating(op) ==
  op \in {"createUser", "createTeam", "addUserToTeam", "removeTeamMember", "updateMotto"}

\* "Basic " + base64(email + ":" + configured password)
ExpectedAuthorization(email, processEnv) ==
  BasicAuth(email.bytes \o <<58>> \o processEnv.HACKBOT_PASSWORD)

\* C7: a request has an Authorization header exactly when a mutating
\* operation was called with an email, and the header then is
\* Basic base64(email:password); every other request has none.
C7_AuthorizationIffMutatingWithEmail ==
  \A c \in CallIds :
    \A i \in DOMAIN requests[c] :
      /\ HasField(requests[c][i].headers, "Authorization")
           <=> (Mutating(call[c].op) /\ Exists(Get(call[c].args, "email")))
      /\ HasField(requests[c][i].headers, "Authorization") =>
           requests[c][i].headers.Authorization
             = ExpectedAuthorization(call[c].args.email, env)

\* The lookup pool of a document: its primary resource and its included
\* resources; a reference resolves to the pool entry of its type and id.
Pool(doc) ==
  << doc.data >> \o (IF HasField(doc, "included") THEN doc.included ELSE << >>)

InPool(doc, ref) ==
  \E i \in DOMAIN Pool(doc) : Pool(doc)[i].type = ref.type /\ Pool(doc)[i].id = ref.id

Lookup(doc, ref) ==
  Pool(doc)[CHOOSE i \in DOMAIN Pool(doc) :
              Pool(doc)[i].type = ref.type /\ Pool(doc)[i].id = ref.id]

\* The team resource a read's document is about: the primary resource of
\* getTeam, the resource the primary's team relationship points to of getUser.
HasTeamResource(op, doc) ==
  \/ op = "getTeamByName"
  \/ /\ op = "getUser"
     /\ doc.data.relationships.team.data # Null
     /\ InPool(doc, doc.data.relationships.team.data)

TeamResourceOf(op, doc) ==
  IF op = "getTeamByName" THEN doc.data
  ELSE Lookup(doc, doc.data.relationships.team.data)

\* {id, name} of the resources a reference array points to, in array order.
MembersOf(doc, refs) ==
  [ i \in DOMAIN refs |->
      [id |-> Lookup(doc, refs[i]).id, name |-> Lookup(doc, refs[i]).attributes.name] ]

\* The team of a result: result.team of getTeam, result.user.team of getUser.
ResolvedTeam(op, result) ==
  IF op = "getTeamByName" THEN Get(result, "team")
  ELSE Get(Get(result, "user"), "team")

\* C8: on a 2xx document, the resolved team's members are the {id, name} of
\* the resources its relationships.members.data points to, one for one and in
\* that order.
C8_MembersFollowReferenceOrder ==
  \A c \in CallIds :
    ( /\ Responded(c) /\ IsRead(c) /\ Ok(Status(c)) /\ Parses(c)
      /\ HasTeamResource(call[c].op, Document(c)) ) =>
        /\ Resolved(c)
        /\ HasField(ResolvedTeam(call[c].op, Result(c)), "members")
        /\ ResolvedTeam(call[c].op, Result(c)).members
             = MembersOf(Document(c),
                         TeamResourceOf(call[c].op, Document(c)).relationships.members.data)

\* C9: getUser on a 2xx document whose team relationship is null resolves
\* with ok = true and user.team = null (present, and not undefined).
C9_NullTeamStaysNull ==
  \A c \in CallIds :
    ( /\ Responded(c) /\ call[c].op = "getUser" /\ Ok(Status(c)) /\ Parses(c)
      /\ Document(c).data.relationships.team.data = Null ) =>
        /\ Resolved(c)
        /\ HasField(Result(c), "ok")
        /\ Result(c).ok = TRUE
        /\ HasField(Result(c), "user")
        /\ HasField(Result(c).user, "team")
        /\ Result(c).user.team = Null

\* b holds the entries of a, each as often, in some order.
IsPermutation(a, b) ==
  /\ Len(a) = Len(b)
  /\ \A i \in DOMAIN a :
       Cardinality({j \in DOMAIN a : a[j] = a[i]})
         = Cardinality({j \in DOMAIN b : b[j] = a[i]})

SameUpToIncludedOrder(d1, d2) ==
  /\ d1.data = d2.data
  /\ HasField(d1, "included") <=> HasField(d2, "included")
  /\ HasField(d1, "included") => IsPermutation(d1.included, d2.included)

\* C10: two reads that get the same status and documents that differ only
\* in the order of their included arrays have the same outcome.
C10_IncludedOrderIrrelevant ==
  \A c1, c2 \in CallIds :
    ( /\ Responded(c1) /\ Responded(c2)
      /\ IsRead(c1) /\ call[c1] = call[c2]
      /\ Status(c1) = Status(c2)
      /\ Parses(c1) /\ Parses(c2)
      /\ SameUpToIncludedOrder(Document(c1), Document(c2)) ) =>
        promise[c1] = promise[c2]

(***************************************************************************)
(* The interface's Response Resolver (the relationship resolution that     *)
(* lib/client.coffee does not perform): from a status code and a JSON:API  *)
(* document to the result envelope with a denormalized user, team or       *)
(* teams.                                                                  *)
(***************************************************************************)
\* The lookup pool: the primary resource(s), then the included array.
PoolOfIncluded(op, doc) ==
  IF HasField(doc, "included") THEN doc.included ELSE << >>

PoolOf(op, doc) ==
  (IF op = "findTeams" THEN doc.data ELSE << doc.data >>)
    \o (IF HasField(doc, "included") THEN doc.included ELSE << >>)

\* The index in the pool of the resource a reference points to; 0 if none.
Find(pool, ref) ==
  IF \E i \in DOMAIN pool : pool[i].type = ref.type /\ pool[i].id = ref.id
    THEN CHOOSE i \in DOMAIN pool : pool[i].type = ref.type /\ pool[i].id = ref.id
    ELSE 0

\* A resolved reference: the minimal {id, name} of the resource.
Minimal(resource) == [id |-> resource.id, name |-> resource.attributes.name]

\* ResolveMembers were it to keep a reference without a pool entry, as its id.
ResolveMembersPartial(refs, pool) ==
  [i \in DOMAIN refs |->
     IF Find(pool, refs[i]) # 0 THEN Minimal(pool[Find(pool, refs[i])])
     ELSE [id |-> refs[i].id]]

\* ResolveMembers were it to expand each member's own team relationship.
ResolveMembersExpanded(refs, pool) ==
  LET found == SelectSeq(refs, LAMBDA r : Find(pool, r) # 0)
  IN  [i \in DOMAIN found |->
         [ id |-> pool[Find(pool, found[i])].id,
           name |-> pool[Find(pool, found[i])].attributes.name,
           team |-> pool[Find(pool, found[i])].relationships.team.data ]]

\* The references of an array that have a pool entry, resolved in array order.
ResolveMembers(refs, pool) ==
  LET found == SelectSeq(refs, LAMBDA r : Find(pool, r) # 0)
  IN  [i \in DOMAIN found |-> Minimal(pool[Find(pool, found[i])])]

HasRelationship(resource, name) ==
  /\ HasField(resource, "relationships")
  /\ HasField(resource.relationships, name)

\* A team: id, name and, when the resource has a members relationship, its
\* members.
ResolveTeam(resource, pool) ==
  IF HasRelationship(resource, "members")
    THEN [ id |-> resource.id, name |-> resource.attributes.name,
           members |-> ResolveMembers(resource.relationships.members.data, pool) ]
    ELSE Minimal(resource)

\* A user: id, name and its team: null when the relationship's data is null,
\* the resolved team when the pool holds it, absent otherwise.
ResolveUser(resource, pool) ==
  IF ~HasRelationship(resource, "team") THEN Minimal(resource)
  ELSE IF resource.relationships.team.data = Null
    THEN [id |-> resource.id, name |-> resource.attributes.name, team |-> Null]
  ELSE IF Find(pool, resource.relationships.team.data) = 0 THEN Minimal(resource)
  ELSE [ id |-> resource.id, name |-> resource.attributes.name,
         team |-> ResolveTeam(pool[Find(pool, resource.relationships.team.data)], pool) ]

\* The teams of a collection document, in the opposite of its order.
ResolveTeamsReversed(data, pool) ==
  [i \in DOMAIN data |-> ResolveTeam(data[Len(data) + 1 - i], pool)]

\* The teams of a collection document, in the document's order.
ResolveTeams(data, pool) ==
  [i \in DOMAIN data |-> ResolveTeam(data[i], pool)]

\* The envelope of a response: {statusCode, ok} and, when ok, the payload of
\* the operation.  A 2xx body that is no JSON fails the call.
ResponseResolver(op, statusCode, body) ==
  LET ok == 200 <= statusCode /\ statusCode < 300
      reads == {"getUser", "getTeam", "findTeams"}
  IN
  IF ~ok \/ op \notin reads
    THEN << Resolve([statusCode |-> statusCode, ok |-> ok]) >>
  ELSE IF JSONparse(body).threw THEN << Reject(JSONparse(body).value) >>
  ELSE
    LET doc == JSONparse(body).value
        pool == PoolOf(op, doc)
    IN
    IF op = "getUser"
      THEN << Resolve([statusCode |-> statusCode, ok |-> ok,
                       user |-> ResolveUser(doc.data, pool)]) >>
    ELSE IF op = "getTeam"
      THEN << Resolve([statusCode |-> statusCode, ok |-> ok,
                       team |-> ResolveTeam(doc.data, pool)]) >>
    ELSE << Resolve([statusCode |-> statusCode, ok |-> ok,
                     teams |-> ResolveTeams(doc.data, pool)]) >>

(***************************************************************************)
(* The interface's Request Builder, for the operations lib/client.coffee   *)
(* does not have (and for the reads whose documents the Response Resolver  *)
(* resolves): method, path, headers and body of the one request.           *)
(***************************************************************************)
JsonApi == "application/vnd.api+json"

HttpRequest(method, client, query, body) ==
  [ method |-> method, url |-> client.url, query |-> query,
    headers |-> client.headers, body |-> body ]

\* Basic credentials only when the caller supplies an email.
AuthOptions(args, processEnv) ==
  IF Exists(Get(args, "email"))
    THEN [auth |-> args.email.bytes \o <<58>> \o processEnv.HACKBOT_PASSWORD]
    ELSE NoOptions

UserIdentifierWithoutType(userId) == [id |-> userId]

UserIdentifier(userId) == [type |-> "users", id |-> userId]

\* The resource updateMotto patches: the team, by id, with its new motto.
MottoResourceWithoutId(teamId, motto) ==
  [type |-> "teams", attributes |-> [motto |-> motto]]

MottoResource(teamId, motto) ==
  [type |-> "teams", id |-> teamId, attributes |-> [motto |-> motto]]

RequestBuilder(op, args, processEnv) ==
  LET base == processEnv.HACK24API_URL
      read(url) == HeaderAccept(Http(url, NoOptions), JsonApi)
      write(url) ==
        HeaderContentType(HeaderAccept(Http(url, AuthOptions(args, processEnv)), JsonApi),
                          JsonApi)
  IN
  IF op = "getUser"
    THEN HttpRequest("GET", read(<< base, "users", args.userId >>), Undefined, Undefined)
  ELSE IF op = "getTeam"
    THEN HttpRequest("GET", read(<< base, "teams", args.teamId >>), Undefined, Undefined)
  ELSE IF op = "findTeams"
    THEN HttpRequest("GET", read(<< base, "teams" >>),
                     [filter |-> [name |-> args.filterName]], Undefined)
  ELSE IF op = "addUserToTeam"
    THEN HttpRequest("POST", write(<< base, "teams", args.teamId, "members" >>), Undefined,
                     JSONstringify([data |-> << UserIdentifier(args.userId) >>]))
  ELSE IF op = "removeTeamMember"
    THEN HttpRequest("DELETE", write(<< base, "teams", args.teamId, "members" >>), Undefined,
                     JSONstringify([data |-> << UserIdentifier(args.userId) >>]))
  ELSE \* updateMotto
    HttpRequest("PATCH", write(<< base, "teams", args.teamId >>), Undefined,
                JSONstringify([data |-> MottoResource(args.teamId, args.motto)]))

(***************************************************************************)
(* Inputs of these operations.                                             *)
(***************************************************************************)
TeamIds == { "clicky-keys" }
Mottos == { "No TV and no beer" }
FilterNames == { "hacking hack" }

ApiReads == { "getUser", "getTeam", "findTeams" }
ApiWrites == { "addUserToTeam", "removeTeamMember", "updateMotto" }

ApiArgs(op) ==
  IF op = "getUser" THEN { [userId |-> u] : u \in UserIds }
  ELSE IF op = "getTeam" THEN { [teamId |-> t] : t \in TeamIds }
  ELSE IF op = "findTeams" THEN { [filterName |-> f] : f \in FilterNames }
  ELSE IF op = "updateMotto"
    THEN { [motto |-> m, teamId |-> t, email |-> e] :
             m \in Mottos, t \in TeamIds, e \in EmailArgs }
  ELSE { [teamId |-> t, userId |-> u, email |-> e] :
           t \in TeamIds, u \in UserIds, e \in EmailArgs }

\* Documents with a reference that no pool entry matches: the user's team is
\* not included; the team's second member is not included.
DanglingUserDocuments ==
  { [data |-> Barry, included |-> << Zackary >>],
    [data |-> Barry, included |-> << ClickyKeys >>] }

DanglingTeamDocuments ==
  { [data |-> ClickyKeys, included |-> << Barry >>] }

HackHackers ==
  [ type |-> "teams", id |-> "hack-hackers-hacking-hacks",
    attributes |-> [name |-> "Hack Hackers Hacking Hacks"] ]
HackersHacking ==
  [ type |-> "teams", id |-> "hackers-hacking-hack-hacks",
    attributes |-> [name |-> "Hackers Hacking Hack Hacks"] ]

\* GET /teams?filter[name]=...: two teams in either order (no included array),
\* no team, and a team with its members included.
TeamsDocuments ==
  { [data |-> << HackHackers, HackersHacking >>],
    [data |-> << HackersHacking, HackHackers >>],
    [data |-> << >>],
    [data |-> << ClickyKeys >>, included |-> << Zackary, Barry >>] }

ApiStatusCodes == { 200, 204, 404 }

ApiBodies(op) ==
  IF op = "getUser"
    THEN {JSONstringify(d) : d \in UserDocuments \cup DanglingUserDocuments} \cup {NotJson}
  ELSE IF op = "getTeam"
    THEN {JSONstringify(d) : d \in TeamDocuments \cup DanglingTeamDocuments} \cup {NotJson}
  ELSE IF op = "findTeams"
    THEN {JSONstringify(d) : d \in TeamsDocuments} \cup {NotJson}
  ELSE {NotJson}

(***************************************************************************)
(* One invocation through the Request Builder, the transport and the       *)
(* Response Resolver.                                                      *)
(***************************************************************************)
SendRequest(c, op, args) ==
  /\ pc[c] = "idle"
  /\ Invoke(c, op, args, RequestBuilder(op, args, env))

ResolveResponse(c) ==
  /\ pc[c] = "waiting"
  /\ \E s \in ApiStatusCodes, b \in ApiBodies(call[c].op) :
       Deliver(c, [err |-> Null, res |-> [statusCode |-> s], body |-> b],
               ResponseResolver(call[c].op, s, b))

TransportFailure(c) ==
  /\ pc[c] = "waiting"
  /\ \E e \in TransportErrors :
       Deliver(c, [err |-> e, res |-> Undefined, body |-> Undefined], << Reject(e) >>)

NextApi ==
  \E c \in CallIds :
    \/ \E op \in ApiReads \cup ApiWrites : \E args \in ApiArgs(op) : SendRequest(c, op, args)
    \/ ResolveResponse(c)
    \/ TransportFailure(c)

SpecApi == Init /\ [][NextApi]_vars

(***************************************************************************)
(* Properties of the Response Resolver.                                    *)
(***************************************************************************)
\* A read whose 2xx document the resolver was given.
ResolvedRead(c) ==
  /\ Responded(c)
  /\ call[c].op \in ApiReads
  /\ Ok(Status(c))
  /\ Parses(c)

\* The resources of a read's document: primary resource(s), then included.
Resources(c) ==
  (IF call[c].op = "findTeams" THEN Document(c).data ELSE << Document(c).data >>)
    \o (IF HasField(Document(c), "included") THEN Document(c).included ELSE << >>)

Matches(c, ref) ==
  \E i \in DOMAIN Resources(c) :
    Resources(c)[i].type = ref.type /\ Resources(c)[i].id = ref.id

NameOf(c, ref) ==
  Resources(c)[CHOOSE i \in DOMAIN Resources(c) :
                 Resources(c)[i].type = ref.type /\ Resources(c)[i].id = ref.id
              ].attributes.name

\* The teams a result holds: result.team, result.user.team or result.teams.
ResultTeams(c) ==
  IF call[c].op = "getTeam" THEN << Result(c).team >>
  ELSE IF call[c].op = "findTeams" THEN Result(c).teams
  ELSE IF HasField(Result(c).user, "team") /\ Result(c).user.team # Null
    THEN << Result(c).user.team >>
  ELSE << >>

\* Every member of every team of the result satisfies P.
AllMembers(c, P(_)) ==
  \A i \in DOMAIN ResultTeams(c) :
    HasField(ResultTeams(c)[i], "members") =>
      \A j \in DOMAIN ResultTeams(c)[i].members : P(ResultTeams(c)[i].members[j])

\* A user document whose team reference has no entry among its resources.
DanglingTeam(c) ==
  /\ call[c].op = "getUser"
  /\ Document(c).data.relationships.team.data # Null
  /\ ~Matches(c, Document(c).data.relationships.team.data)

BodyValue(request) ==
  IF request.body = Undefined THEN Undefined ELSE JSONparse(request.body).value

\* The request of call c goes to method and path (below HACK24API_URL).
GoesTo(c, i, method, path) ==
  /\ requests[c][i].method = method
  /\ requests[c][i].url = << env.HACK24API_URL >> \o path

\* C13: every request has Accept: application/vnd.api+json, and every
\* request with a body has Content-Type: application/vnd.api+json.
C13_JsonApiMediaType ==
  \A c \in CallIds :
    \A i \in DOMAIN requests[c] :
      /\ HasField(requests[c][i].headers, "Accept")
      /\ requests[c][i].headers.Accept = JsonApi
      /\ requests[c][i].body # Undefined =>
           /\ HasField(requests[c][i].headers, "Content-Type")
           /\ requests[c][i].headers["Content-Type"] = JsonApi

\* C14: createTeam sends POST /teams with data.type = "teams",
\* data.attributes.name = teamName and data.relationships.members.data =
\* [{type: "users", id: userId}].
C14_CreateTeamBody ==
  \A c \in CallIds :
    \A i \in DOMAIN requests[c] :
      call[c].op = "createTeam" =>
        /\ GoesTo(c, i, "POST", << "teams" >>)
        /\ HasField(BodyValue(requests[c][i]), "data")
        /\ BodyValue(requests[c][i]).data
             = [ type |-> "teams",
                 attributes |-> [name |-> call[c].args.teamName],
                 relationships |->
                   [members |-> [data |-> << Ref("users", call[c].args.userId) >>]] ]

\* C15: createUser sends POST /users with data.type = "users", data.id =
\* userId and data.attributes.name = userName.
C15_CreateUserBody ==
  \A c \in CallIds :
    \A i \in DOMAIN requests[c] :
      call[c].op = "createUser" =>
        /\ GoesTo(c, i, "POST", << "users" >>)
        /\ HasField(BodyValue(requests[c][i]), "data")
        /\ BodyValue(requests[c][i]).data
             = [ type |-> "users", id |-> call[c].args.userId,
                 attributes |-> [name |-> call[c].args.userName] ]

\* C16: addUserToTeam and removeTeamMember go to /teams/{teamId}/members, by
\* POST and DELETE, with a body object whose data is an array of exactly
\* the one resource identifier {type: "users", id: userId}.
C16_MembershipRequests ==
  \A c \in CallIds :
    \A i \in DOMAIN requests[c] :
      call[c].op \in {"addUserToTeam", "removeTeamMember"} =>
        /\ GoesTo(c, i, IF call[c].op = "addUserToTeam" THEN "POST" ELSE "DELETE",
                  << "teams", call[c].args.teamId, "members" >>)
        /\ DOMAIN BodyValue(requests[c][i]) = {"data"}
        /\ BodyValue(requests[c][i]).data
             = << [type |-> "users", id |-> call[c].args.userId] >>

\* An addUserToTeam and a removeTeamMember have both sent their request.
C16_Witness ==
  \E c, d \in CallIds :
    /\ call[c].op = "addUserToTeam" /\ requests[c] # << >>
    /\ call[d].op = "removeTeamMember" /\ requests[d] # << >>

\* C17: updateMotto sends PATCH /teams/{teamId} with data.type = "teams",
\* data.id = the teamId of the path and data.attributes.motto = motto; an
\* answer of 404 resolves with ok = false and does not reject.
C17_UpdateMotto ==
  \A c \in CallIds :
    call[c].op = "updateMotto" =>
      /\ \A i \in DOMAIN requests[c] :
           /\ GoesTo(c, i, "PATCH", << "teams", call[c].args.teamId >>)
           /\ HasField(BodyValue(requests[c][i]), "data")
           /\ HasField(BodyValue(requests[c][i]).data, "id")
           /\ BodyValue(requests[c][i]).data.type = "teams"
           /\ BodyValue(requests[c][i]).data.id = requests[c][i].url[3]
           /\ BodyValue(requests[c][i]).data.attributes.motto = call[c].args.motto
      /\ Responded(c) /\ Status(c) = 404 =>
           /\ Resolved(c)
           /\ Result(c).statusCode = 404
           /\ Result(c).ok = FALSE

\* An updateMotto was answered 404 and has settled.
C17_Witness ==
  \E c \in CallIds :
    /\ call[c].op = "updateMotto"
    /\ requests[c] # << >>
    /\ Responded(c) /\ Status(c) = 404
    /\ pc[c] = "done"

\* C18: findTeams sends GET /teams with query filter[name] = filterName; on
\* a 2xx document whose data is an array the result's teams have the length
\* and the order of that array, each with the id and the name of its
\* resource, whether or not the document has an included array.
C18_FindTeams ==
  \A c \in CallIds :
    call[c].op = "findTeams" =>
      /\ \A i \in DOMAIN requests[c] :
           /\ GoesTo(c, i, "GET", << "teams" >>)
           /\ requests[c][i].query = [filter |-> [name |-> call[c].args.filterName]]
      /\ ResolvedRead(c) =>
           /\ Resolved(c)
           /\ HasField(Result(c), "teams")
           /\ Len(Result(c).teams) = Len(Document(c).data)
           /\ \A i \in DOMAIN Document(c).data :
                /\ Result(c).teams[i].id = Document(c).data[i].id
                /\ Result(c).teams[i].name = Document(c).data[i].attributes.name

\* A findTeams resolved a document of two teams that has no included array.
C18_Witness ==
  \E c \in CallIds :
    /\ call[c].op = "findTeams"
    /\ ResolvedRead(c)
    /\ pc[c] = "done"
    /\ Len(Document(c).data) = 2
    /\ ~HasField(Document(c), "included")
    /\ Len(Result(c).teams) = 2

(***************************************************************************)
(* Concurrent invocations.                                                 *)
(***************************************************************************)
\* The request of call c names the arguments of call c.
OwnRequest(c, i) ==
  IF call[c].op = "getUser"
    THEN GoesTo(c, i, "GET", << "users", call[c].args.userId >>)
  ELSE IF call[c].op = "getTeamByName"
    THEN GoesTo(c, i, "GET", << "teams", call[c].args.teamName >>)
  ELSE IF call[c].op = "checkApi"
    THEN GoesTo(c, i, "GET", << "api" >>)
  ELSE IF call[c].op = "createTeam"
    THEN /\ GoesTo(c, i, "POST", << "teams" >>)
         /\ BodyValue(requests[c][i]).name = call[c].args.teamName
         /\ BodyValue(requests[c][i]).members = << call[c].args.userId >>
  ELSE /\ GoesTo(c, i, "POST", << "users" >>)
       /\ BodyValue(requests[c][i]).userid = call[c].args.userId
       /\ BodyValue(requests[c][i]).name = call[c].args.userName

\* The result of call c carries the status and the document of the response
\* to call c, or the error of its own transport failure.
OwnResult(c) ==
  /\ Failed(c) => Rejected(c) /\ Result(c) = delivered[c].err
  /\ Responded(c) /\ Resolved(c) /\ ~IsRead(c) => Result(c) = Num(Status(c))
  /\ Responded(c) /\ Resolved(c) /\ IsRead(c) =>
       /\ Result(c).statusCode = Status(c)
       /\ \A f \in {"user", "team"} :
            HasField(Result(c), f) => Parses(c) /\ Result(c)[f] = Document(c)

\* C19: under every interleaving of the requests and responses of
\* concurrent calls, each call's request is built from its own arguments,
\* its result comes from its own response, and two calls with the same
\* operation, arguments and response end with the same result, whatever
\* the other calls were and whichever finished first.
C19_CallsAreIndependent ==
  \A c \in CallIds :
    /\ \A i \in DOMAIN requests[c] : OwnRequest(c, i)
    /\ Done(c) => OwnResult(c)
    /\ \A d \in CallIds :
         (Done(c) /\ Done(d) /\ call[c] = call[d] /\ delivered[c] = delivered[d])
           => promise[c] = promise[d] /\ requests[c] = requests[d]

\* Two getUser calls were in flight together and were answered differently:
\* one with 404, the other with a document that its result holds.
C19_Witness ==
  \E c, d \in CallIds :
    /\ c # d
    /\ call[c].op = "getUser" /\ call[d].op = "getUser"
    /\ Responded(c) /\ Status(c) = 404 /\ Resolved(c)
    /\ Responded(d) /\ Status(d) = 200 /\ Resolved(d)
    /\ HasField(Result(d), "user")
    /\ ~HasField(Result(c), "user")

(***************************************************************************)
(* scripts/error.script.ts: the handler the script registers with          *)
(* robot.error.  A template literal is the sequence of its parts; an       *)
(* interpolated undefined reads "undefined".                               *)
(***************************************************************************)
CommandText(response) ==
  IF HasField(response.message, "text") THEN response.message.text ELSE "undefined"

fallback(user, response, err) ==
  << "Error responding to message from @", user.name,
     "\nCommand: ", CommandText(response),
     "\nError: ", err.message >>

\* The line of three grave accents that opens and closes a block of code
\* (a character no string of this language can hold).
CodeFence == "[three grave accents]"

text(user, response, err) ==
  << "Error responding to message from @", user.name,
     "\n", CodeFence, "\nCommand: ", CommandText(response),
     "\n", CodeFence, "\n", CodeFence, "\nError: ", err.stack,
     "\n", CodeFence >>

\* robot.send(envelope, message) and response.reply(string), as the adapter
\* receives them.
Send(envelope, message) == [kind |-> "send", envelope |-> envelope, content |-> message]
Reply(response, string) ==
  [kind |-> "reply", envelope |-> response.envelope, content |-> string]

Sorry == "Uhh, sorry, I just experienced an error :goberserk:"

\* The handler were it to reply to the user before it notifies the channel.
ErrorHandlerRepliesFirst(err, response, config) ==
  IF response = Undefined
    THEN [messages |-> << >>, thrown |-> << TypeError >>]
  ELSE
    [ messages |->
        << Reply(response, Sorry),
           Send([room |-> config.HACKBOT_ERROR_CHANNEL],
                [attachments |->
                   << [ fallback |-> fallback(response.envelope.user, response, err),
                        color |-> "warning",
                        title |-> "Hackbot error caught",
                        text |-> text(response.envelope.user, response, err),
                        mrkdwn_in |-> << "text" >> ] >>]) >>,
      thrown |-> << >> ]

\* (err, response) => { ... }: the messages it hands to the adapter, in
\* order, and the exception that leaves it.  response.envelope is read
\* first, and throws a TypeError on an undefined response.
ErrorHandler(err, response, config) ==
  IF response = Undefined
    THEN [messages |-> << >>, thrown |-> << TypeError >>]
  ELSE
    [ messages |->
        << Send([room |-> config.HACKBOT_ERROR_CHANNEL],
                [attachments |->
                   << [ fallback |-> fallback(response.envelope.user, response, err),
                        color |-> "warning",
                        title |-> "Hackbot error caught",
                        text |-> text(response.envelope.user, response, err),
                        mrkdwn_in |-> << "text" >> ] >>]),
           Reply(response, Sorry) >>,
      thrown |-> << >> ]

\* robot.emit('error', err, response): the handler runs to its end.
RobotError(err, response) ==
  /\ Len(robot.emitted) < MaxErrors
  /\ robot' = [robot EXCEPT
                 !.emitted = Append(@, [err |-> err, response |-> response]),
                 !.messages = @ \o ErrorHandler(err, response, robot.config).messages,
                 !.thrown = @ \o ErrorHandler(err, response, robot.config).thrown]
  /\ UNCHANGED << env, pc, call, requests, delivered, promise, uncaught >>

NextScripts == \E err \in Errors, response \in Responses : RobotError(err, response)

SpecScripts == Init /\ [][NextScripts]_vars

\* The error event of this step, when the step is one.
Emitted == robot'.emitted[Len(robot'.emitted)]
NewMessages == SubSeq(robot'.messages, Len(robot.messages) + 1, Len(robot'.messages))

Contains(parts, part) == \E i \in DOMAIN parts : parts[i] = part

\* C20: the error handler, run for an error raised while answering a
\* message, emits exactly two messages: first one attachment (color
\* warning, title "Hackbot error caught", text containing the command and
\* the error's stack) to the configured error channel, then one reply to
\* the user saying "Uhh, sorry, I just experienced an error :goberserk:".
C20_ErrorHandlerSendsThenReplies ==
  [][ (Len(robot'.emitted) = Len(robot.emitted) + 1 /\ Emitted.response # Undefined) =>
        /\ SubSeq(robot'.messages, 1, Len(robot.messages)) = robot.messages
        /\ Len(NewMessages) = 2
        /\ NewMessages[1].kind = "send"
        /\ NewMessages[1].envelope = [room |-> robot.config.HACKBOT_ERROR_CHANNEL]
        /\ Len(NewMessages[1].content.attachments) = 1
        /\ NewMessages[1].content.attachments[1].color = "warning"
        /\ NewMessages[1].content.attachments[1].title = "Hackbot error caught"
        /\ Contains(NewMessages[1].content.attachments[1].text,
                    CommandText(Emitted.response))
        /\ Contains(NewMessages[1].content.attachments[1].text, Emitted.err.stack)
        /\ NewMessages[2].kind = "reply"
        /\ NewMessages[2].envelope.user = Emitted.response.envelope.user
        /\ NewMessages[2].content = Sorry
    ]_vars

\* The handler has run for an error raised while answering "@hubot my id".
C20_Witness ==
  \E i \in DOMAIN robot.emitted :
    /\ robot.emitted[i].response # Undefined
    /\ HasField(robot.emitted[i].response.message, "text")
    /\ Len(robot.messages) >= 2
    /\ robot.thrown = << >>

(***************************************************************************)
(* The lookup pool and the primary resource.                               *)
(***************************************************************************)
\* The team of call c's user document lists the requested user itself among
\* its members, and the included array does not repeat that user.
PrimaryIsMember(c) ==
  /\ call[c].op = "getUser"
  /\ ResolvedRead(c)
  /\ HasTeamResource("getUser", Document(c))
  /\ \E j \in DOMAIN TeamResourceOf("getUser", Document(c)).relationships.members.data :
       TeamResourceOf("getUser", Document(c)).relationships.members.data[j]
         = Ref("users", Document(c).data.id)
  /\ \A k \in DOMAIN Document(c).included :
       ~(Document(c).included[k].type = "users"
         /\ Document(c).included[k].id = Document(c).data.id)

ScriptReply(response, string) == [eff |-> "reply", message |-> Reply(response, string)]
ScriptSend(envelope, message) == [eff |-> "send", message |-> Send(envelope, message)]
ScriptCall(fn, args) == [eff |-> "call", fn |-> fn, args |-> args]

\* The robot after a handler's effects: a message goes to the adapter, a
\* call is noted with the number of messages sent before it, a throw ends
\* the handler.
RECURSIVE RunScript(_, _)
RunScript(r, effects) ==
  IF effects = << >> THEN r
  ELSE IF Head(effects).eff = "throw" THEN r
  ELSE IF Head(effects).eff = "call"
    THEN RunScript([r EXCEPT !.calls = Append(@, [ fn |-> Head(effects).fn,
                                                   args |-> Head(effects).args,
                                                   sent |-> Len(r.messages) ])],
                   Tail(effects))
  ELSE RunScript([r EXCEPT !.messages = Append(@, Head(effects).message)], Tail(effects))

\* `${n}` of a number: its decimal digits.
RECURSIVE Decimal(_)
Decimal(n) == IF n < 10 THEN << n >> ELSE Decimal(n \div 10) \o << n % 10 >>

QuickLook == << "I'll have a quick look for you..." >>
ISeeHer == << "I see her!" >>
Problem(statusCode) ==
  << "I'm sorry, there appears to be a problem; something about \"",
     Decimal(statusCode), "\"" >>

\* /can you see the api\??/i, up to its await, were it to call checkApi
\* before it replies.
canYouSeeTheApiCallsFirst(response) ==
  << ScriptCall("checkApi", << >>), ScriptReply(response, QuickLook) >>

\* /can you see the api\??/i, up to its await.
canYouSeeTheApi(response) ==
  << ScriptReply(response, QuickLook), ScriptCall("checkApi", << >>) >>

\* ... and from its await on: a rejection is thrown by the await.
canYouSeeTheApiAwait(response, outcome) ==
  IF outcome.state = "rejected" THEN << Throw(outcome.value) >>
  ELSE IF outcome.value.ok THEN << ScriptReply(response, ISeeHer) >>
  ELSE << ScriptReply(response, Problem(outcome.value.statusCode)) >>

\* The run of a handler: its script, the response it answers, where it is
\* ("awaiting", "returned", "rejected"), what its await gave it and the
\* error it ended with.
Handler(script, response, state, outcome, error) ==
  [ script |-> script, response |-> response, state |-> state,
    outcome |-> outcome, error |-> error ]

TextMessage(user, string) == [user |-> user, text |-> string]

\* A user says "can you see the api?" to the robot.
CanYouSeeTheApi(user) ==
  /\ user \in Requesters
  /\ Len(robot.handlers) < MaxCommands
  /\ LET response == Response(TextMessage(user, "@hubot can you see the api?"))
     IN  robot' = [ RunScript(robot, canYouSeeTheApi(response)) EXCEPT
                      !.handlers = Append(@, Handler("can you see the api", response,
                                                     "awaiting", Undefined, Undefined)) ]
  /\ UNCHANGED << env, pc, call, requests, delivered, promise, uncaught >>

\* The promise of checkApi settles and handler h goes on from its await.
CanYouSeeTheApiAwait(h, outcome) ==
  /\ h \in DOMAIN robot.handlers
  /\ robot.handlers[h].state = "awaiting"
  /\ LET effects == canYouSeeTheApiAwait(robot.handlers[h].response, outcome)
     IN  robot' = [ RunScript(robot, effects) EXCEPT
                      !.handlers[h].state =
                         IF Thrown(effects) = Undefined THEN "returned" ELSE "rejected",
                      !.handlers[h].outcome = outcome,
                      !.handlers[h].error = Thrown(effects) ]
  /\ UNCHANGED << env, pc, call, requests, delivered, promise, uncaught >>

\* dataStore.getUserById(id), dataStore.getUserByName(name): the user of the
\* store, or undefined.
getUserById(dataStore, id) ==
  IF \E i \in DOMAIN dataStore : dataStore[i].id = id
    THEN dataStore[CHOOSE i \in DOMAIN dataStore : dataStore[i].id = id]
    ELSE Undefined

getUserByName(dataStore, name) ==
  IF \E i \in DOMAIN dataStore : dataStore[i].name = name
    THEN dataStore[CHOOSE i \in DOMAIN dataStore : dataStore[i].name = name]
    ELSE Undefined

\* The grave accent (a character no string of this language can hold).
GraveAccent == "[grave accent]"

OnlyAdmins ==
  << "Only admins can use the ", GraveAccent, "whois", GraveAccent, " command" >>
CouldNotFind == << "Could not find that user" >>

IsAdminTypeError ==
  [jstype |-> "error", message |-> "Cannot read property 'is_admin' of undefined"]

\* The attachment that shows a user's record: JSON.stringify(user, null, 2)
\* between code fences.
UserAttachment(user) ==
  [attachments |->
     << [ fallback |-> << CodeFence, JSONstringify(user), CodeFence >>,
          color |-> "good",
          text |-> << CodeFence, JSONstringify(user), CodeFence >>,
          mrkdwn_in |-> << "text" >> ] >>]

\* The end of both handlers: the record, or the apology, to the requester's id.
SendUser(response, user) ==
  IF user # Undefined
    THEN ScriptSend([id |-> response.envelope.user.id], UserAttachment(user))
    ELSE ScriptSend([id |-> response.envelope.user.id], CouldNotFind)

\* /my id/i
myId(response, dataStore) ==
  << ScriptCall("getUserById", << response.envelope.user.id >>),
     SendUser(response, getUserById(dataStore, response.envelope.user.id)) >>

\* /whois (.+)/i: .is_admin of the requester's record throws a TypeError
\* when the store does not know the requester.  response.match[1], the
\* group, is the second element of the match.
whois(response, dataStore) ==
  LET requester == getUserById(dataStore, response.envelope.user.id)
  IN
  IF requester = Undefined
    THEN << ScriptCall("getUserById", << response.envelope.user.id >>),
            Throw(IsAdminTypeError) >>
  ELSE IF ~requester.is_admin
    THEN << ScriptCall("getUserById", << response.envelope.user.id >>),
            ScriptReply(response, OnlyAdmins) >>
  ELSE << ScriptCall("getUserById", << response.envelope.user.id >>),
          ScriptCall("getUserByName", << response.match[2] >>),
          SendUser(response, getUserByName(dataStore, response.match[2])) >>

\* new Response(robot, message, match)
ResponseMatch(message, match) ==
  [ envelope |-> [user |-> message.user, message |-> message],
    message |-> message, match |-> match ]

\* A handler that runs to its end at once.
RunHandler(script, response, effects) ==
  /\ Len(robot.handlers) < MaxCommands
  /\ robot' = [ RunScript(robot, effects) EXCEPT
                  !.handlers = Append(@, Handler(script, response,
                                                 IF Thrown(effects) = Undefined
                                                   THEN "returned" ELSE "threw",
                                                 Undefined, Thrown(effects))) ]
  /\ UNCHANGED << env, pc, call, requests, delivered, promise, uncaught >>

\* A user says "my id" to the robot.
MyId(user) ==
  /\ user \in Requesters
  /\ LET response == ResponseMatch(TextMessage(user, "@hubot my id"), << "my id" >>)
     IN  RunHandler("my id", response, myId(response, DataStore))

\* A user says "whois <name>" to the robot.
Whois(user, command) ==
  /\ user \in Requesters
  /\ LET response == ResponseMatch(TextMessage(user, command.text), command.match)
     IN  RunHandler("whois", response, whois(response, DataStore))

NextChat ==
  \/ \E user \in Requesters : MyId(user)
  \/ \E user \in Requesters, command \in WhoisCommands : Whois(user, command)
  \/ \E user \in Requesters : CanYouSeeTheApi(user)
  \/ \E h \in 1..MaxCommands, outcome \in CheckApiOutcomes : CanYouSeeTheApiAwait(h, outcome)

SpecChat == Init /\ [][NextChat]_vars

(***************************************************************************)
(* Properties of the command handlers.                                     *)
(***************************************************************************)
\* The handler run this step starts, and the one this step takes on.
Started(script) ==
  /\ Len(robot'.handlers) = Len(robot.handlers) + 1
  /\ robot'.handlers[Len(robot'.handlers)].script = script
Starting == robot'.handlers[Len(robot'.handlers)]

Resumed(h) ==
  /\ h \in DOMAIN robot.handlers
  /\ robot.handlers[h].state = "awaiting"
  /\ robot'.handlers[h].state # "awaiting"

NewCalls == SubSeq(robot'.calls, Len(robot.calls) + 1, Len(robot'.calls))

\* C22: "can you see the api" replies "I'll have a quick look for you..."
\* before it calls checkApi; when checkApi resolves exactly one further
\* reply follows, "I see her!" if and only if the result's ok is true and
\* otherwise the problem message quoting the statusCode; when checkApi
\* rejects no further reply follows and the error leaves the handler.
C22_QuickLookThenOneAnswer ==
  [][ /\ Started("can you see the api") =>
           /\ NewMessages = << Reply(Starting.response, QuickLook) >>
           /\ Len(NewCalls) = 1
           /\ NewCalls[1].fn = "checkApi"
           /\ NewCalls[1].sent = Len(robot'.messages)
           /\ Starting.state = "awaiting"
      /\ \A h \in 1..MaxCommands :
           (Resumed(h) /\ robot.handlers[h].script = "can you see the api") =>
             /\ NewCalls = << >>
             /\ IF robot'.handlers[h].outcome.state = "resolved"
                  THEN /\ Len(NewMessages) = 1
                       /\ NewMessages[1].kind = "reply"
                       /\ NewMessages[1].envelope = robot.handlers[h].response.envelope
                       /\ (NewMessages[1].content = ISeeHer)
                            <=> (robot'.handlers[h].outcome.value.ok = TRUE)
                       /\ (NewMessages[1].content # ISeeHer) =>
                            NewMessages[1].content
                              = Problem(robot'.handlers[h].outcome.value.statusCode)
                       /\ robot'.handlers[h].state = "returned"
                  ELSE /\ NewMessages = << >>
                       /\ robot'.handlers[h].state = "rejected"
                       /\ robot'.handlers[h].error = robot'.handlers[h].outcome.value
    ]_vars

\* One handler got ok = true and said "I see her!", another got a rejection
\* and ended with its error after its first reply only.
C22_Witness ==
  \E h, g \in DOMAIN robot.handlers :
    /\ robot.handlers[h].script = "can you see the api"
    /\ robot.handlers[h].state = "returned"
    /\ robot.handlers[h].outcome.value.ok = TRUE
    /\ robot.handlers[g].script = "can you see the api"
    /\ robot.handlers[g].state = "rejected"
    /\ Len(robot.messages) = 3

\* The requester of the handler this step starts is an admin of the store.
RequesterIsAdmin ==
  /\ getUserById(DataStore, Starting.response.envelope.user.id) # Undefined
  /\ getUserById(DataStore, Starting.response.envelope.user.id).is_admin

Asked == getUserByName(DataStore, Starting.response.match[2])

\* C23: "whois <name>" from a requester who is not an admin gives only the
\* reply "Only admins can use the `whois` command", and no user is looked
\* up by name or sent; from an admin it gives exactly one message, sent to
\* the requester's own id: the record of the user of that name, or "Could
\* not find that user" when there is none.
C23_WhoisOnlyForAdmins ==
  [][ Started("whois") =>
        IF RequesterIsAdmin
          THEN /\ Len(NewMessages) = 1
               /\ NewMessages[1].kind = "send"
               /\ NewMessages[1].envelope = [id |-> Starting.response.envelope.user.id]
               /\ IF Asked # Undefined
                    THEN /\ HasField(NewMessages[1].content, "attachments")
                         /\ NewMessages[1].content = UserAttachment(Asked)
                    ELSE NewMessages[1].content = CouldNotFind
          ELSE /\ NewMessages = << Reply(Starting.response, OnlyAdmins) >>
               /\ \A i \in DOMAIN NewCalls : NewCalls[i].fn # "getUserByName"
    ]_vars

\* C24: the error handler, invoked with an error and no response, still
\* posts the error attachment to the configured error channel, sends no
\* reply, and does not itself fail.
C24_ErrorWithoutResponseIsReported ==
  [][ (Len(robot'.emitted) = Len(robot.emitted) + 1 /\ Emitted.response = Undefined) =>
        /\ robot'.thrown = robot.thrown
        /\ Len(NewMessages) = 1
        /\ NewMessages[1].kind = "send"
        /\ NewMessages[1].envelope = [room |-> robot.config.HACKBOT_ERROR_CHANNEL]
        /\ Len(NewMessages[1].content.attachments) = 1
        /\ NewMessages[1].content.attachments[1].title = "Hackbot error caught"
    ]_vars

====
